---------------------------- MODULE Spec2Model ----------------------------
(***************************************************************************)
(* The fulfillment state machine and coin ledger of src/App.js.            *)
(*                                                                         *)
(* The document store is modelled at its interface: getDoc reads one       *)
(* document, addDoc creates a document under a fresh id, updateDoc merges  *)
(* fields into an existing document and throws when the document is        *)
(* absent, setDoc(..., {merge: true}) merges fields and creates the        *)
(* document when absent.  Every await of a handler is one step; the steps  *)
(* of different handler invocations interleave freely.                     *)
(*                                                                         *)
(* Every non-admin user can reach each of the four dashboards through the  *)
(* header's role selector (handleRoleSwitch), so the sets Customers,       *)
(* Salespersons and Doctors name who acts in which capacity and may        *)
(* overlap.  Identifiers are opaque strings: the code uses document ids    *)
(* as user ids (lines 649, 681, 1724), so they share one id space.         *)
(***************************************************************************)
EXTENDS Integers, Sequences, FiniteSets, Bags, TLC

\* ------------------------------------------------------------------ bounds
MaxInFlight == 2      \* handler invocations that may await the store at once
MaxLedger   == 2      \* Transaction documents the model lets be appended
MaxOffers   == 1      \* patientOffers documents
MaxOrders   == 1      \* order documents
MaxDay      == 31     \* the last day the clock reaches

\* ------------------------------------------------------------- identifiers
Customers      == {"u1", "u2"}
Salespersons   == {"u2", "u3"}
Doctors        == {"u3"}
Users          == Customers \cup Salespersons \cup Doctors
InstitutionIds == {"i1"}
Clients        == Users \cup {"admin"}   \* the users who sign in
ProductIds     == {"p1"}
OfferNames     == <<"a1", "a2", "a3">>
OrderNames     == <<"o1", "o2", "o3">>
OfferIds       == { OfferNames[n] : n \in 1..MaxOffers }
OrderIds       == { OrderNames[n] : n \in 1..MaxOrders }

Undefined == "undefined"   \* a field the document or object does not have

\* A JavaScript number is <<n>>; NaN, and a numeric field that is absent
\* (undefined + k is NaN), is the empty sequence.
NaN    == <<>>
Num(n) == <<n>>

\* ------------------------------------------------- strings typed into forms
\* A text is a sequence of characters; "x" stands for any non-digit character.
Digits == {"0", "1", "2"}

DigitValue(c) == CASE c = "0" -> 0 [] c = "1" -> 1 [] c = "2" -> 2

RECURSIVE DigitsPrefix(_)
DigitsPrefix(s) ==
  IF s = <<>> \/ Head(s) \notin Digits THEN <<>>
  ELSE <<Head(s)>> \o DigitsPrefix(Tail(s))

RECURSIVE DecimalValue(_)
DecimalValue(ds) ==
  IF ds = <<>> THEN 0
  ELSE 10 * DecimalValue(SubSeq(ds, 1, Len(ds) - 1)) + DigitValue(ds[Len(ds)])

\* parseInt: an optional sign, then the longest prefix of digits; NaN without one.
parseInt(s) ==
  LET neg  == s # <<>> /\ Head(s) = "-"
      body == IF neg THEN Tail(s) ELSE s
      ds   == DigitsPrefix(body)
  IN  IF ds = <<>> THEN NaN
      ELSE IF neg THEN Num(0 - DecimalValue(ds)) ELSE Num(DecimalValue(ds))

AmountInputs == { <<>>, <<"0">>, <<"1">>, <<"2">>, <<"-", "1">>, <<"x">>, <<"1", "x">> }
CoinInputs   == { <<"0">>, <<"2">> }

\* ------------------------------------------------------------ QR content
\* An object is the sequence of its <<key, value>> members in insertion order.
\* A text is "object" (the JSON text of an object, member by member), "empty"
\* (the empty string) or "garbage" (a string that is not JSON).
RECURSIVE DefinedMembers(_)
DefinedMembers(obj) ==
  IF obj = <<>> THEN <<>>
  ELSE IF Head(obj)[2] = Undefined THEN DefinedMembers(Tail(obj))
       ELSE <<Head(obj)>> \o DefinedMembers(Tail(obj))

\* JSON.stringify inside generateQRCodeContent: members whose value is
\* undefined are left out of the text.
generateQRCodeContent(data) == [kind |-> "object", members |-> DefinedMembers(data)]

\* obj.key: the value of the last member named key, undefined when there is none.
RECURSIVE Field(_, _)
Field(obj, key) ==
  IF obj = <<>> THEN Undefined
  ELSE IF obj[Len(obj)][1] = key THEN obj[Len(obj)][2]
       ELSE Field(SubSeq(obj, 1, Len(obj) - 1), key)

\* JSON.parse followed by the destructuring of lines 1038 and 1505.
JSONParses(text) == text.kind = "object"
qrData(text) ==
  [orderId        |-> Field(text.members, "orderId"),
   patientOfferId |-> Field(text.members, "patientOfferId"),
   salespersonId  |-> Field(text.members, "salespersonId")]

\* handleGenerateCustomerQr(item) by salesperson userId; an item loaded from a
\* store listener carries its document id in field id and has no field orderId.
CustomerQr(item, userId) ==
  generateQRCodeContent(
    IF item.orderId # Undefined
    THEN << <<"orderId", item.orderId>>, <<"salespersonId", userId>> >>
    ELSE << <<"patientOfferId", item.id>>, <<"salespersonId", userId>> >>)

\* handleAcceptOffer / handleGenerateSalespersonQr(offerId) by doctor userId.
SalespersonQr(offerId, userId) ==
  generateQRCodeContent(<< <<"patientOfferId", offerId>>, <<"doctorId", userId>> >>)

\* What a user may paste into the QR input: any token the program mints, any
\* hand-made object naming a record and a salesperson, the empty string, and
\* a string that is not JSON.
QrInputs ==
  { CustomerQr([id |-> i, orderId |-> Undefined], u) :
      i \in OfferIds \cup OrderIds, u \in Users }
  \cup { SalespersonQr(a, d) : a \in OfferIds, d \in Users }
  \cup { generateQRCodeContent(<< <<"orderId", o>>, <<"salespersonId", s>> >>) :
           o \in OrderIds, s \in Users \cup {Undefined} }
  \cup { generateQRCodeContent(<< <<"salespersonId", s>> >>) : s \in Users }
  \cup { [kind |-> "empty", members |-> <<>>], [kind |-> "garbage", members |-> <<>>] }

\* ------------------------------------------------------------------ state
VARIABLES
  profiles,             \* users/{id}/profile/{id}: coins balance of each account
  products,             \* public/data/products
  orders,               \* users/{customerId}/orders/{orderId}
  allOrders,            \* public/data/allOrders, which handleTakeOrderAppointment queries
  patientOffers,        \* public/data/patientOffers
  institutionRequests,  \* public/data/institutionRequests: status of each request
  transactions,         \* users/{targetId}/transactions, in order of creation
  requests,             \* the bag of handler invocations awaiting the store
  message,              \* the message of the invocation that just ended
  now,                  \* the clock, in days: new Date() and serverTimestamp()
  currentQrContent,     \* of each user's dashboard: the QR content shown
  showQrModal,          \* of each user's dashboard: whether the QR modal is open
  salespersonCoinHistory,   \* of each user's client, as its listener last set it
  institutionCoinHistory,   \* of each user's client, as its listener last set it
  userRole              \* of each user's client: the role whose dashboard is shown

vars == <<profiles, products, orders, allOrders, patientOffers,
          institutionRequests, transactions, requests, message, now,
          currentQrContent, showQrModal, salespersonCoinHistory,
          institutionCoinHistory, userRole>>

storeVars == <<profiles, products, orders, allOrders, patientOffers,
               institutionRequests, transactions>>

\* The state of the QR modal and of the coin-history tables of the clients.
qrVars == <<currentQrContent, showQrModal>>
historyVars == <<salespersonCoinHistory, institutionCoinHistory>>

checkupCoins == 50

\* A profile document: its fields role, createdAt and coins.
NoProfile == [exists |-> FALSE, coins |-> NaN, role |-> Undefined, createdAt |-> Undefined]
Profile(role, createdAt, coins) ==
  [exists |-> TRUE, coins |-> coins, role |-> role, createdAt |-> createdAt]
NoProduct == [exists |-> FALSE, coinsAssigned |-> NaN]
NoRecord  == [exists |-> FALSE, id |-> Undefined, owner |-> Undefined,
              doctorId |-> Undefined, productId |-> Undefined,
              status |-> Undefined, salespersonId |-> Undefined]

\* An Order or patientOffer document; owner is its customerId / patientId.
Record(id, owner, doctorId, productId, status) ==
  [exists |-> TRUE, id |-> id, owner |-> owner, doctorId |-> doctorId,
   productId |-> productId, status |-> status, salespersonId |-> Undefined]

\* The locals of a handler invocation: the fields destructured from the QR
\* content, the document read, the amount to credit and the balance read.
IdleRequest ==
  [op |-> "idle", pc |-> "idle", userId |-> Undefined, type |-> Undefined,
   orderId |-> Undefined, patientOfferId |-> Undefined, salespersonId |-> Undefined,
   docId |-> Undefined, productId |-> Undefined, target |-> Undefined,
   amountToDonate |-> <<>>, amount |-> 0, coins |-> NaN, result |-> Undefined]

\* What an invocation that ended reports: who asked for what, and the result.
Report(r) ==
  [op |-> r.op, userId |-> r.userId, type |-> r.type, orderId |-> r.orderId,
   patientOfferId |-> r.patientOfferId, salespersonId |-> r.salespersonId,
   target |-> r.target, amountToDonate |-> r.amountToDonate, result |-> r.result]
NoMessage == Report(IdleRequest)

InFlight == BagToSet(requests)

\* message is read by the view only (GlobalMessage, lines 407-423), never by a
\* handler: it is observed as soon as it is set.  A handler may be invoked
\* while fewer than limit invocations await the store.
Quiet           == message = NoMessage
CanBegin(limit) == Quiet /\ BagCardinality(requests) < limit

\* The invocation r (IdleRequest: a new one) goes on as r2, or ends when r2 is done.
Put(r, r2) ==
  LET others == IF r = IdleRequest THEN requests ELSE requests (-) SetToBag({r}) IN
  IF r2.pc = "done"
  THEN /\ requests' = others
       /\ message' = Report(r2)
  ELSE /\ requests' = others (+) SetToBag({r2})
       /\ UNCHANGED message

\* addDoc: the new document gets an id no document of the collection has
\* (the first unused one of names).
HasFreshId(coll, names, max) == \E n \in 1..max : ~coll[names[n]].exists
FreshId(coll, names, max) ==
  names[CHOOSE n \in 1..max : /\ ~coll[names[n]].exists
                               /\ \A m \in 1..(n - 1) : coll[names[m]].exists]

\* displayMessage(msg, type): the invocation ends and shows its message.
Done(r, result) == [r EXCEPT !.pc = "done", !.result = result]

\* The role each user has selected by the time the records flow begins, the
\* admin's being assigned in the Firebase console (lines 516-519); a user
\* takes the other roles of the sets Customers, Salespersons and Doctors
\* through the header selector.
SelectedRole ==
  [u \in Clients |-> IF u = "admin" THEN "admin"
                     ELSE IF u \in Doctors THEN "doctor"
                     ELSE IF u \in Salespersons THEN "salesperson"
                     ELSE "customer"]

Init ==
  /\ profiles = [i \in Users \cup InstitutionIds |->
                   IF i \in Users THEN Profile(SelectedRole[i], 0, NaN) ELSE NoProfile]
  /\ products = [p \in ProductIds |-> NoProduct]
  /\ orders = [o \in OrderIds |-> NoRecord]
  /\ allOrders = [o \in OrderIds |-> NoRecord]
  /\ patientOffers = [a \in OfferIds |-> NoRecord]
  /\ institutionRequests = [i \in InstitutionIds |-> "none"]
  /\ transactions = <<>>
  /\ requests = EmptyBag
  /\ message = NoMessage
  /\ now = 0
  /\ currentQrContent = [u \in Users |-> [kind |-> "empty", members |-> <<>>]]
  /\ showQrModal = [u \in Users |-> FALSE]
  /\ salespersonCoinHistory = [u \in Users |-> {}]
  /\ institutionCoinHistory = [u \in Users |-> {}]
  /\ userRole = [u \in Clients |-> SelectedRole[u]]

\* ------------------------------------------------------- admin dashboard
handleAddProduct(limit, p, productCoins) ==
  /\ CanBegin(limit)
  /\ ~products[p].exists
  /\ products' = [products EXCEPT ![p] =
                    [exists |-> TRUE, coinsAssigned |-> parseInt(productCoins)]]
  /\ UNCHANGED <<profiles, orders, allOrders, patientOffers,
                 institutionRequests, transactions, requests, message>>

handleSubmitInstitutionRequest(limit, i) ==
  /\ CanBegin(limit)
  /\ institutionRequests[i] = "none"
  /\ institutionRequests' = [institutionRequests EXCEPT ![i] = "pending"]
  /\ UNCHANGED <<profiles, products, orders, allOrders, patientOffers,
                 transactions, requests, message>>

\* The Approve button of a request listed as pending (line 946).
handleApproveInstitution(limit, i) ==
  /\ CanBegin(limit)
  /\ institutionRequests[i] = "pending"
  /\ Put(IdleRequest,
       [IdleRequest EXCEPT !.op = "approveInstitution", !.pc = "updateRequest",
                           !.userId = "admin", !.target = i])
  /\ UNCHANGED storeVars

\* await updateDoc(docRef, {status: 'approved', ...}), lines 675-678
ApproveUpdateRequest(r) ==
  /\ r.op = "approveInstitution" /\ r.pc = "updateRequest"
  /\ institutionRequests' = [institutionRequests EXCEPT ![r.target] = "approved"]
  /\ Put(r, [r EXCEPT !.pc = "setProfile"])
  /\ UNCHANGED <<profiles, products, orders, allOrders, patientOffers, transactions>>

\* await setDoc(institutionProfileRef, {..., coins: 0, approved: true}, {merge: true})
ApproveSetProfile(r) ==
  /\ r.op = "approveInstitution" /\ r.pc = "setProfile"
  /\ profiles' = [profiles EXCEPT
                    ![r.target] = Profile("institution", @.createdAt, Num(0))]
  /\ Put(r, Done(r, "success"))
  /\ UNCHANGED <<products, orders, allOrders, patientOffers,
                 institutionRequests, transactions>>

\* ---------------------------------------------- creation of the records
handleBuyNow(limit, userId, productId) ==
  /\ CanBegin(limit)
  /\ userId \in Customers
  /\ products[productId].exists
  /\ HasFreshId(orders, OrderNames, MaxOrders)
  /\ LET o == FreshId(orders, OrderNames, MaxOrders) IN
     orders' = [orders EXCEPT ![o] =
        Record(o, userId, Undefined, productId, "pending_salesperson_pickup")]
  /\ UNCHANGED <<profiles, products, allOrders, patientOffers,
                 institutionRequests, transactions, requests, message>>

\* A variant of handlePurchaseProduct that stores the order as handleBuyNow
\* does, awaiting a salesperson.
handlePurchaseProductPending(limit, userId, productId) ==
  /\ CanBegin(limit)
  /\ userId \in Doctors
  /\ products[productId].exists
  /\ HasFreshId(orders, OrderNames, MaxOrders)
  /\ LET o == FreshId(orders, OrderNames, MaxOrders) IN
     orders' = [orders EXCEPT ![o] =
        Record(o, userId, Undefined, productId, "pending_salesperson_pickup")]
  /\ UNCHANGED <<profiles, products, allOrders, patientOffers,
                 institutionRequests, transactions, requests, message>>

handlePurchaseProduct(limit, userId, productId) ==
  /\ CanBegin(limit)
  /\ userId \in Doctors
  /\ products[productId].exists
  /\ HasFreshId(orders, OrderNames, MaxOrders)
  /\ LET o == FreshId(orders, OrderNames, MaxOrders) IN
     orders' = [orders EXCEPT ![o] =
        Record(o, userId, Undefined, productId, "purchased_by_doctor")]
  /\ UNCHANGED <<profiles, products, allOrders, patientOffers,
                 institutionRequests, transactions, requests, message>>

handleRequestCheckup(limit, userId, doctorId, reasonForCheckup) ==
  /\ CanBegin(limit)
  /\ userId \in Customers
  /\ doctorId \in Doctors
  /\ reasonForCheckup # ""
  /\ HasFreshId(patientOffers, OfferNames, MaxOffers)
  /\ LET a == FreshId(patientOffers, OfferNames, MaxOffers) IN
     patientOffers' = [patientOffers EXCEPT ![a] =
        Record(a, userId, doctorId, Undefined, "pending")]
  /\ UNCHANGED <<profiles, products, orders, allOrders,
                 institutionRequests, transactions, requests, message>>

\* ------------------------------------------------------ doctor dashboard
\* pendingOffers, line 1792: the offers the doctor dashboard lists with an
\* Accept button.
pendingOffers(userId) ==
  { a \in OfferIds : /\ patientOffers[a].exists
                     /\ patientOffers[a].status = "pending"
                     /\ patientOffers[a].doctorId = userId }

\* handleAcceptOffer(offerId), lines 1767-1770: no condition on the offer.
handleAcceptOffer(limit, userId, offerId) ==
  /\ CanBegin(limit)
  /\ Put(IdleRequest,
       [IdleRequest EXCEPT !.op = "accept", !.pc = "updateDoc", !.userId = userId,
                           !.type = "appointment", !.patientOfferId = offerId])
  /\ UNCHANGED storeVars

\* The Accept Offer button, lines 1844-1852.
ClickAcceptOffer(limit, userId) ==
  /\ userId \in Doctors
  /\ \E offerId \in pendingOffers(userId) : handleAcceptOffer(limit, userId, offerId)

\* await updateDoc(offerRef, {status: 'accepted', ...}), lines 1771-1775, and
\* on success the QR for the salesperson, lines 1776-1779; updateDoc throws
\* when the document does not exist (catch, line 1780).
AcceptUpdateDoc(r) ==
  LET a == r.patientOfferId
  IN
  /\ r.op = "accept" /\ r.pc = "updateDoc"
  /\ IF patientOffers[a].exists
     THEN /\ patientOffers' = [patientOffers EXCEPT ![a].status = "accepted"]
          /\ Put(r, Done(r, "success"))
          /\ currentQrContent' =
               [currentQrContent EXCEPT ![r.userId] = SalespersonQr(a, r.userId)]
          /\ showQrModal' = [showQrModal EXCEPT ![r.userId] = TRUE]
     ELSE /\ Put(r, Done(r, "Error"))
          /\ UNCHANGED <<patientOffers, qrVars>>
  /\ UNCHANGED <<profiles, products, orders, allOrders,
                 institutionRequests, transactions>>

\* ------------------------------------------------- salesperson dashboard
\* The status a claim writes, line 1566.
ClaimedStatus(type) == IF type = "order" THEN "in_delivery" ELSE "assigned_to_salesperson"

\* The check of lines 1559-1562 alone: the status of the document is not
\* looked at.
TakeValidateUnassignedOnly(type, data) ==
  IF data.salespersonId # Undefined THEN "AlreadyAssigned" ELSE "ok"

\* The checks of lines 1550-1562 on the document read.
TakeValidate(type, data) ==
  IF type = "order" /\ data.status # "pending_salesperson_pickup" THEN "InvalidState"
  ELSE IF type = "appointment" /\ data.status # "accepted" THEN "InvalidState"
  ELSE IF data.salespersonId # Undefined THEN "AlreadyAssigned"
  ELSE "ok"

\* The documents of public/data/allOrders whose field id is orderId, line 1524.
orderSnapshot(orderId) ==
  { d \in OrderIds : allOrders[d].exists /\ allOrders[d].id = orderId }

\* await getDoc(docRef) and the checks of lines 1541-1562.
TakeGetDoc(r) ==
  LET coll == IF r.type = "order" THEN allOrders ELSE patientOffers
      data == IF r.docId \in DOMAIN coll THEN coll[r.docId] ELSE NoRecord
  IN  IF ~data.exists THEN Done(r, "NotFound")
      ELSE IF TakeValidate(r.type, data) # "ok" THEN Done(r, TakeValidate(r.type, data))
      ELSE [r EXCEPT !.pc = "updateDoc"]

\* handleTakeOrderAppointment to the end of its first store access, lines
\* 1497-1562: for an order the query of allOrders (line 1524), for an
\* appointment getDoc (line 1541).  Parsing the QR content reads no shared
\* state, so it is one step with the read that follows it.
handleTakeOrderAppointment(limit, userId, qrCodeInput) ==
  LET qr == qrData(qrCodeInput)
      r  == [IdleRequest EXCEPT !.op = "take", !.userId = userId,
                                !.orderId = qr.orderId,
                                !.patientOfferId = qr.patientOfferId]
  IN
  /\ CanBegin(limit)
  /\ userId \in Salespersons
  /\ Put(IdleRequest,
       IF qrCodeInput.kind = "empty" THEN Done(r, "NoInput")
       ELSE IF ~JSONParses(qrCodeInput) THEN Done(r, "Error")
       ELSE IF qr.orderId # Undefined
            THEN IF orderSnapshot(qr.orderId) = {}
                 THEN Done([r EXCEPT !.type = "order"], "NotFound")
                 ELSE [r EXCEPT !.type = "order", !.pc = "getDoc",
                                !.docId = CHOOSE d \in orderSnapshot(qr.orderId) : TRUE]
       ELSE IF qr.patientOfferId # Undefined
            THEN TakeGetDoc([r EXCEPT !.type = "appointment",
                                      !.docId = qr.patientOfferId])
       ELSE Done(r, "MalformedToken"))
  /\ UNCHANGED storeVars

\* A variant of TakeAwait whose write assigns the record to the doctor the
\* record names instead of the requester.
TakeAwaitAssigningDoctor(r) ==
  LET claimed(doc) == [doc EXCEPT !.salespersonId = doc.doctorId,
                                  !.status = ClaimedStatus(r.type)]
  IN
  /\ r.op = "take"
  /\ IF r.pc = "getDoc"
     THEN /\ Put(r, TakeGetDoc(r))
          /\ UNCHANGED <<allOrders, patientOffers>>
     ELSE /\ IF r.type = "order"
             THEN /\ allOrders' = [allOrders EXCEPT ![r.docId] = claimed(@)]
                  /\ UNCHANGED patientOffers
             ELSE /\ patientOffers' = [patientOffers EXCEPT ![r.docId] = claimed(@)]
                  /\ UNCHANGED allOrders
          /\ Put(r, Done(r, "success"))
  /\ UNCHANGED <<profiles, products, orders, institutionRequests, transactions>>

\* The next awaited store access of a claim: getDoc of the order found by the
\* query (line 1541), or
\* await updateDoc(docRef, {salespersonId: userId, status: ...}), lines 1564-1568.
TakeAwait(r) ==
  LET claimed(doc) == [doc EXCEPT !.salespersonId = r.userId,
                                  !.status = ClaimedStatus(r.type)]
  IN
  /\ r.op = "take"
  /\ IF r.pc = "getDoc"
     THEN /\ Put(r, TakeGetDoc(r))
          /\ UNCHANGED <<allOrders, patientOffers>>
     ELSE /\ IF r.type = "order"
             THEN /\ allOrders' = [allOrders EXCEPT ![r.docId] = claimed(@)]
                  /\ UNCHANGED patientOffers
             ELSE /\ patientOffers' = [patientOffers EXCEPT ![r.docId] = claimed(@)]
                  /\ UNCHANGED allOrders
          /\ Put(r, Done(r, "success"))
  /\ UNCHANGED <<profiles, products, orders, institutionRequests, transactions>>

\* ---------------------------------------------------- customer dashboard
\* The checks of lines 1077-1088 alone: the document's owner is not compared
\* with the requester.
ConfirmValidateAnyUser(type, data, userId, salespersonId) ==
  IF type = "order" /\ data.status # "in_delivery" THEN "InvalidState"
  ELSE IF type = "appointment" /\ data.status # "assigned_to_salesperson"
       THEN "InvalidState"
  ELSE IF data.salespersonId # salespersonId THEN "SalespersonMismatch"
  ELSE "ok"

\* The checks of lines 1066-1084 alone: the salespersonId of the token is not
\* compared with the one of the document.
ConfirmValidateAnySalesperson(type, data, userId, salespersonId) ==
  IF data.owner # userId THEN "Unauthorized"
  ELSE IF type = "order" /\ data.status # "in_delivery" THEN "InvalidState"
  ELSE IF type = "appointment" /\ data.status # "assigned_to_salesperson"
       THEN "InvalidState"
  ELSE "ok"

\* The checks of lines 1066-1088 on the document read.
ConfirmValidate(type, data, userId, salespersonId) ==
  IF data.owner # userId THEN "Unauthorized"
  ELSE IF type = "order" /\ data.status # "in_delivery" THEN "InvalidState"
  ELSE IF type = "appointment" /\ data.status # "assigned_to_salesperson"
       THEN "InvalidState"
  ELSE IF data.salespersonId # salespersonId THEN "SalespersonMismatch"
  ELSE "ok"

\* The status a confirmation writes, line 1092.
ConfirmedStatus(type) == IF type = "order" THEN "delivered" ELSE "completed"

\* coins: k, the amount alone, whatever balance was read.
CreditedCoinsOverwrite(coins, k) == Num(k)

\* coins: <read>.data()?.coins + k || k, lines 1105, 1125 and 1166.
CreditedCoins(coins, k) ==
  IF coins = NaN THEN Num(k)
  ELSE IF coins[1] + k = 0 THEN Num(k)
  ELSE Num(coins[1] + k)

\* A Transaction document, lines 1107-1115, 1127-1135 and 1170-1177.
Transaction(type, amount, sourceId, targetId, orderId, patientOfferId) ==
  [type |-> type, amount |-> amount, sourceId |-> sourceId, targetId |-> targetId,
   orderId |-> orderId, patientOfferId |-> patientOfferId, date |-> now]

\* Requests that may still append a Transaction.
Crediting ==
  LET S == { r \in InFlight : r.op \in {"confirm", "donate"} }
  IN  BagCardinality([r \in S |-> requests[r]])
LedgerRoom == Len(transactions) + Crediting < MaxLedger

\* getDoc(users/{userId}/orders/{orderId}) or getDoc(patientOffers/{id}): an
\* order is found only in the collection of the user who placed it.
ConfirmSnapshot(type, userId, docId) ==
  IF type = "order"
  THEN IF docId \in OrderIds /\ orders[docId].exists /\ orders[docId].owner = userId
       THEN orders[docId] ELSE NoRecord
  ELSE IF docId \in OfferIds THEN patientOffers[docId] ELSE NoRecord

\* A variant of ConfirmGetDoc that reads the order wherever it is stored and
\* goes on to the write without the checks of lines 1057-1088.
ConfirmGetDocUnchecked(r) ==
  LET data == IF r.type = "order"
              THEN IF r.docId \in OrderIds THEN orders[r.docId] ELSE NoRecord
              ELSE ConfirmSnapshot(r.type, r.userId, r.docId)
  IN  IF ~data.exists THEN Done(r, "NotFound")
      ELSE [r EXCEPT !.productId = data.productId, !.pc = "updateDoc"]

\* await getDoc(docRef) and the checks of lines 1057-1088
ConfirmGetDoc(r) ==
  LET data == ConfirmSnapshot(r.type, r.userId, r.docId)
      verdict == ConfirmValidate(r.type, data, r.userId, r.salespersonId)
  IN  IF ~data.exists THEN Done(r, "NotFound")
      ELSE IF verdict # "ok" THEN Done(r, verdict)
      ELSE [r EXCEPT !.productId = data.productId, !.pc = "updateDoc"]

\* handleConfirmTransferAndPayment to the end of its first store access, lines
\* 1030-1088.  Parsing the QR content reads no shared state, so it is one
\* step with the getDoc that follows it.
handleConfirmTransferAndPayment(limit, userId, qrCodeInput) ==
  LET qr == qrData(qrCodeInput)
      r  == [IdleRequest EXCEPT !.op = "confirm", !.userId = userId,
                                !.orderId = qr.orderId,
                                !.patientOfferId = qr.patientOfferId,
                                !.salespersonId = qr.salespersonId]
  IN
  /\ CanBegin(limit)
  /\ LedgerRoom
  /\ userId \in Customers
  /\ Put(IdleRequest,
       IF qrCodeInput.kind = "empty" THEN Done(r, "NoInput")
       ELSE IF ~JSONParses(qrCodeInput) THEN Done(r, "Error")
       ELSE IF qr.orderId # Undefined
            THEN ConfirmGetDoc([r EXCEPT !.type = "order", !.docId = qr.orderId])
       ELSE IF qr.patientOfferId # Undefined
            THEN ConfirmGetDoc([r EXCEPT !.type = "appointment",
                                         !.docId = qr.patientOfferId])
       ELSE Done(r, "MalformedToken"))
  /\ UNCHANGED storeVars

\* await updateDoc(docRef, {status: ...}), lines 1091-1097, and the choice of
\* the reward, lines 1100-1102 and 1122.  products.find reads the catalog as
\* the client's listener last delivered it, which may lack a product the
\* store holds.
ConfirmUpdateDoc(r) ==
  /\ r.op = "confirm" /\ r.pc = "updateDoc"
  /\ IF r.type = "order"
     THEN /\ orders' = [orders EXCEPT ![r.docId].status = ConfirmedStatus(r.type)]
          /\ UNCHANGED patientOffers
          /\ \E listed \in BOOLEAN :
               LET product == IF listed /\ r.productId \in ProductIds
                              THEN products[r.productId] ELSE NoProduct
               IN Put(r,
                    IF product.exists /\ product.coinsAssigned # NaN
                                      /\ product.coinsAssigned[1] > 0
                    THEN [r EXCEPT !.amount = product.coinsAssigned[1],
                                   !.pc = "getProfile"]
                    ELSE Done(r, "success"))
     ELSE /\ patientOffers' = [patientOffers EXCEPT
                                 ![r.docId].status = ConfirmedStatus(r.type)]
          /\ UNCHANGED orders
          /\ Put(r,
               [r EXCEPT !.amount = checkupCoins, !.pc = "getProfile"])
  /\ UNCHANGED <<profiles, products, allOrders, institutionRequests, transactions>>

\* (await getDoc(profileRef)).data()?.coins, lines 1105, 1125 and 1166
ReadCoins(id) == IF id \in DOMAIN profiles THEN profiles[id].coins ELSE NaN
ProfileExists(id) == id \in DOMAIN profiles /\ profiles[id].exists

\* The account credited were it the requester's own.
CreditRequester(r) == IF r.op = "confirm" THEN r.userId ELSE r.target

\* The account a request credits: the token's salespersonId, or the
\* institution selected for the donation.
CreditTarget(r) == IF r.op = "confirm" THEN r.salespersonId ELSE r.target

GetProfile(r) ==
  /\ r.op \in {"confirm", "donate"} /\ r.pc = "getProfile"
  /\ Put(r,
       [r EXCEPT !.coins = ReadCoins(CreditTarget(r)), !.pc = "updateProfile"])
  /\ UNCHANGED storeVars

\* A variant of UpdateProfile that credits atomically, as increment() would:
\* the amount is added to the balance the profile holds when the write lands.
UpdateProfileIncrement(r) ==
  LET id == CreditTarget(r)
  IN
  /\ r.op \in {"confirm", "donate"} /\ r.pc = "updateProfile"
  /\ IF ProfileExists(id)
     THEN /\ profiles' = [profiles EXCEPT
                            ![id].coins = CreditedCoins(profiles[id].coins, r.amount)]
          /\ Put(r, [r EXCEPT !.pc = "addDoc"])
     ELSE /\ Put(r, Done(r, "Error"))
          /\ UNCHANGED profiles
  /\ UNCHANGED <<products, orders, allOrders, patientOffers,
                 institutionRequests, transactions>>

\* A variant of UpdateProfile that backs a donation: the amount credited to
\* the institution is taken from the donor's balance.
UpdateProfileDebitingDonor(r) ==
  LET id == CreditTarget(r)
      debited(coins) == IF coins = NaN THEN Num(0 - r.amount)
                                       ELSE Num(coins[1] - r.amount)
  IN
  /\ r.op \in {"confirm", "donate"} /\ r.pc = "updateProfile"
  /\ IF ProfileExists(id)
     THEN /\ profiles' =
               [p \in DOMAIN profiles |->
                  IF p = id
                  THEN [profiles[p] EXCEPT !.coins = CreditedCoins(r.coins, r.amount)]
                  ELSE IF r.op = "donate" /\ p = r.userId
                  THEN [profiles[p] EXCEPT !.coins = debited(@)]
                  ELSE profiles[p]]
          /\ Put(r, [r EXCEPT !.pc = "addDoc"])
     ELSE /\ Put(r, Done(r, "Error"))
          /\ UNCHANGED profiles
  /\ UNCHANGED <<products, orders, allOrders, patientOffers,
                 institutionRequests, transactions>>

\* await updateDoc(profileRef, {coins: ...}); throws when the profile is absent.
UpdateProfile(r) ==
  LET id == CreditTarget(r)
  IN
  /\ r.op \in {"confirm", "donate"} /\ r.pc = "updateProfile"
  /\ IF ProfileExists(id)
     THEN /\ profiles' = [profiles EXCEPT ![id].coins = CreditedCoins(r.coins, r.amount)]
          /\ Put(r, [r EXCEPT !.pc = "addDoc"])
     ELSE /\ Put(r, Done(r, "Error"))
          /\ UNCHANGED profiles
  /\ UNCHANGED <<products, orders, allOrders, patientOffers,
                 institutionRequests, transactions>>

\* catch (error), lines 1139-1142, with the rollback the handler does not
\* have: the record is put back in the status the claim gave it.
ConfirmCatchRollingBack(r) ==
  /\ r.op = "confirm" /\ r.pc \in {"getProfile", "updateProfile", "addDoc"}
  /\ Put(r, Done(r, "Error"))
  /\ IF r.type = "order"
     THEN /\ orders' = [orders EXCEPT ![r.docId].status = ClaimedStatus(r.type)]
          /\ UNCHANGED patientOffers
     ELSE /\ patientOffers' = [patientOffers EXCEPT
                                 ![r.docId].status = ClaimedStatus(r.type)]
          /\ UNCHANGED orders
  /\ UNCHANGED <<profiles, products, allOrders, institutionRequests, transactions>>

\* catch (error), lines 1139-1142: a store access awaited after the status
\* write (the balance read or write, the ledger append) rejects; the handler
\* reports the error and writes nothing more.
ConfirmCatch(r) ==
  /\ r.op = "confirm" /\ r.pc \in {"getProfile", "updateProfile", "addDoc"}
  /\ Put(r, Done(r, "Error"))
  /\ UNCHANGED storeVars

\* The Transaction a request appends.
RequestTransaction(r) ==
  IF r.op = "donate"
  THEN Transaction("donation", r.amount, r.userId, r.target, Undefined, Undefined)
  ELSE IF r.type = "order"
  THEN Transaction("coin_transfer", r.amount, r.userId, r.salespersonId,
                   r.orderId, Undefined)
  ELSE Transaction("checkup_payment", r.amount, r.userId, r.salespersonId,
                   Undefined, r.patientOfferId)

\* A variant of AddTransaction that writes the Transaction to one fixed
\* document of the collection, as setDoc would, replacing what was there.
AddTransactionSetDoc(r) ==
  /\ r.op \in {"confirm", "donate"} /\ r.pc = "addDoc"
  /\ transactions' = <<RequestTransaction(r)>>
  /\ Put(r, Done(r, "success"))
  /\ UNCHANGED <<profiles, products, orders, allOrders, patientOffers,
                 institutionRequests>>

\* await addDoc(collection(.../transactions), {...}) and the success message
AddTransaction(r) ==
  /\ r.op \in {"confirm", "donate"} /\ r.pc = "addDoc"
  /\ transactions' = Append(transactions, RequestTransaction(r))
  /\ Put(r, Done(r, "success"))
  /\ UNCHANGED <<profiles, products, orders, allOrders, patientOffers,
                 institutionRequests>>

\* A variant of approvedInstitutions that lists every institution that has
\* submitted a request, approved or not.
requestingInstitutions == { i \in InstitutionIds : institutionRequests[i] # "none" }

\* approvedInstitutions, lines 216-224: the options of the donation selector.
approvedInstitutions == { i \in InstitutionIds : institutionRequests[i] = "approved" }

\* A variant of the check of line 1153 that rejects only a NaN amount.
InvalidAmountNaNOnly(amount) == amount = NaN

\* A variant of the check of line 1153 that lets an amount of zero pass.
InvalidAmountNegativeOnly(amount) == amount = NaN \/ amount[1] < 0

\* isNaN(amount) || amount <= 0, line 1153
InvalidAmount(amount) == amount = NaN \/ amount[1] <= 0

\* handleDonateCoins up to its first store access, lines 1146-1156.
handleDonateCoins(limit, userId, selectedInstitutionForDonation, amountToDonate) ==
  LET amount == parseInt(amountToDonate)
      r == [IdleRequest EXCEPT !.op = "donate", !.userId = userId,
                               !.target = selectedInstitutionForDonation,
                               !.amountToDonate = amountToDonate]
  IN
  /\ CanBegin(limit)
  /\ LedgerRoom
  /\ userId \in Customers
  /\ selectedInstitutionForDonation \in approvedInstitutions \cup {""}
  /\ Put(IdleRequest,
       IF selectedInstitutionForDonation = "" \/ amountToDonate = <<>>
       THEN Done(r, "ValidationError")
       ELSE IF InvalidAmount(amount) THEN Done(r, "ValidationError")
       ELSE [r EXCEPT !.amount = amount[1], !.pc = "getProfile"])
  /\ UNCHANGED storeVars

\* setMessage('') of displayMessage, lines 102-105.
DismissMessage ==
  /\ ~Quiet
  /\ message' = NoMessage
  /\ UNCHANGED <<storeVars, requests, now, qrVars, historyVars, userRole>>

\* ------------------------------------------------------------------ roles
\* The roles of the buttons of the RoleSelection screen (lines 502-513) and of
\* the options of the header selector (lines 391-394), with admin added.
RoleOptionsWithAdmin == {"customer", "institution", "salesperson", "doctor", "admin"}

\* The roles of the buttons of the RoleSelection screen (lines 502-513) and of
\* the options of the header selector (lines 391-394).
RoleOptions == {"customer", "institution", "salesperson", "doctor"}

\* setDoc(userDocRef, fields) without {merge: true}: the document is replaced,
\* so the fields the call does not name, coins among them, are dropped.
SetProfileReplacing(userId, role, createdAt) ==
  profiles' = [profiles EXCEPT ![userId] = Profile(role, createdAt, NaN)]

\* setDoc(userDocRef, fields, {merge: true}), lines 355 and 488: the document
\* is created when it is absent and keeps the fields the call does not name.
SetProfileMerge(userId, role, createdAt) ==
  profiles' = [profiles EXCEPT ![userId] = Profile(role, createdAt, @.coins)]

\* handleSelectRole(role), lines 481-495
handleSelectRole(limit, userId, role) ==
  /\ CanBegin(limit)
  /\ SetProfileMerge(userId, role, now)
  /\ userRole' = [userRole EXCEPT ![userId] = role]
  /\ Put(IdleRequest,
       Done([IdleRequest EXCEPT !.op = "selectRole", !.userId = userId,
                                !.target = role], "success"))
  /\ UNCHANGED <<products, orders, allOrders, patientOffers,
                 institutionRequests, transactions, now, qrVars, historyVars>>

\* handleRoleSwitch(e) with e.target.value = newRole, lines 346-362
handleRoleSwitch(limit, userId, newRole) ==
  /\ CanBegin(limit)
  /\ SetProfileMerge(userId, newRole, profiles[userId].createdAt)
  /\ userRole' = [userRole EXCEPT ![userId] = newRole]
  /\ Put(IdleRequest,
       Done([IdleRequest EXCEPT !.op = "roleSwitch", !.userId = userId,
                                !.target = newRole], "success"))
  /\ UNCHANGED <<products, orders, allOrders, patientOffers,
                 institutionRequests, transactions, now, qrVars, historyVars>>

\* The RoleSelection screen, shown while userRole is null (line 1925), and
\* its four buttons (lines 502-513).
SelectRoleButton(limit, userId) ==
  /\ userRole[userId] = Undefined
  /\ \E role \in RoleOptions : handleSelectRole(limit, userId, role)

\* The header selector, shown when the role is set and is not admin (line
\* 384), and its options (lines 391-394).
RoleSwitchSelector(limit, userId) ==
  /\ userRole[userId] # "admin" /\ userRole[userId] # Undefined
  /\ \E newRole \in RoleOptions : handleRoleSwitch(limit, userId, newRole)

\* ------------------------------------------------------------- QR modals
\* allAssignedItems, lines 1584-1587: the orders and appointments the
\* salesperson dashboard lists with a Generate QR button.  The orders come
\* from the listener on users/{userId}/orders (lines 286-290).
allAssignedItems(userId) ==
  { [id |-> o, orderId |-> Undefined] :
      o \in { d \in OrderIds : /\ orders[d].exists /\ orders[d].owner = userId
                               /\ orders[d].salespersonId = userId
                               /\ orders[d].status = "in_delivery" } }
  \cup
  { [id |-> a, orderId |-> Undefined] :
      a \in { d \in OfferIds : /\ patientOffers[d].exists
                               /\ patientOffers[d].salespersonId = userId
                               /\ patientOffers[d].status = "assigned_to_salesperson" } }

\* acceptedAppointments, line 1793.
acceptedAppointments(userId) ==
  { a \in OfferIds : /\ patientOffers[a].exists
                     /\ patientOffers[a].status = "accepted"
                     /\ patientOffers[a].doctorId = userId }

\* A variant of ShowQr that also stamps the appointment the content names.
ShowQrAndStamp(userId, content) ==
  /\ currentQrContent' = [currentQrContent EXCEPT ![userId] = content]
  /\ showQrModal' = [showQrModal EXCEPT ![userId] = TRUE]
  /\ patientOffers' = [a \in OfferIds |->
       IF a = Field(content.members, "patientOfferId")
       THEN [patientOffers[a] EXCEPT !.productId = "qr"] ELSE patientOffers[a]]
  /\ UNCHANGED <<profiles, products, orders, allOrders, institutionRequests,
                 transactions, requests, message, now, historyVars, userRole>>

\* setCurrentQrContent(content); setShowQrModal(true)
ShowQr(userId, content) ==
  /\ currentQrContent' = [currentQrContent EXCEPT ![userId] = content]
  /\ showQrModal' = [showQrModal EXCEPT ![userId] = TRUE]
  /\ UNCHANGED <<storeVars, requests, message, now, historyVars, userRole>>

\* handleGenerateCustomerQr(item), lines 1578-1582
handleGenerateCustomerQr(userId, item) == ShowQr(userId, CustomerQr(item, userId))

\* handleGenerateSalespersonQr(offerId), lines 1786-1790
handleGenerateSalespersonQr(userId, offerId) ==
  ShowQr(userId, SalespersonQr(offerId, userId))

\* The Generate QR buttons, lines 1650 and 1886.
ClickGenerateCustomerQr(userId) ==
  /\ userId \in Salespersons
  /\ \E item \in allAssignedItems(userId) : handleGenerateCustomerQr(userId, item)
ClickGenerateSalespersonQr(userId) ==
  /\ userId \in Doctors
  /\ \E offerId \in acceptedAppointments(userId) :
       handleGenerateSalespersonQr(userId, offerId)

\* The close button of the modal, lines 1670-1675 and 1902-1907.
CloseQrModal(userId) ==
  /\ showQrModal[userId]
  /\ showQrModal' = [showQrModal EXCEPT ![userId] = FALSE]
  /\ UNCHANGED <<storeVars, requests, message, now, currentQrContent, historyVars, userRole>>

\* ------------------------------------------------------- coin histories
\* new Date() and serverTimestamp() advance: the clock moves on by the
\* length of the history window or by a day more.
Tick ==
  /\ \E d \in {30, 31} : now + d <= MaxDay /\ now' = now + d
  /\ UNCHANGED <<storeVars, requests, message, qrVars, historyVars, userRole>>

\* thirtyDaysAgo.setDate(thirtyDaysAgo.getDate() - 30), lines 272-273, 309-310
thirtyDaysAgo == now - 30

\* The documents of users/{userId}/transactions that a history query selects
\* (where targetId == userId, where type ...), filtered as the snapshot
\* callback filters them: item.date.toDate() >= thirtyDaysAgo.
recentHistory(userId, types) ==
  { n \in 1..Len(transactions) : /\ transactions[n].targetId = userId
                                 /\ transactions[n].type \in types
                                 /\ transactions[n].date >= thirtyDaysAgo }

\* The snapshot callback of institutionCoinHistoryQuery, lines 265-278, on
\* the client of a user whose role is institution.
InstitutionCoinHistorySnapshot(userId) ==
  /\ institutionCoinHistory' =
       [institutionCoinHistory EXCEPT ![userId] = recentHistory(userId, {"donation"})]
  /\ UNCHANGED <<storeVars, requests, message, now, qrVars, salespersonCoinHistory,
                 userRole>>

\* The snapshot callback of salespersonCoinHistoryQuery, lines 302-315, on
\* the client of a user whose role is salesperson.
SalespersonCoinHistorySnapshot(userId) ==
  /\ userId \in Salespersons
  /\ salespersonCoinHistory' =
       [salespersonCoinHistory EXCEPT
          ![userId] = recentHistory(userId, {"coin_transfer", "checkup_payment"})]
  /\ UNCHANGED <<storeVars, requests, message, now, qrVars, institutionCoinHistory,
                 userRole>>

\* -------------------------------------------------------- specifications
\* The awaited store accesses of the handlers that drive Orders and Appointments.
RecordStep(r) ==
  /\ Quiet
  /\ r.op \in {"accept", "take", "confirm"}
  /\ \/ AcceptUpdateDoc(r)
     \/ TakeAwait(r) /\ UNCHANGED qrVars
     \/ ConfirmUpdateDoc(r) /\ UNCHANGED qrVars
     \/ GetProfile(r) /\ UNCHANGED qrVars
     \/ UpdateProfile(r) /\ UNCHANGED qrVars
     \/ AddTransaction(r) /\ UNCHANGED qrVars
  /\ UNCHANGED <<now, historyVars, userRole>>

\* The awaited store accesses of handleApproveInstitution and handleDonateCoins.
DonationStep(r) ==
  /\ Quiet
  /\ r.op \in {"approveInstitution", "donate"}
  /\ \/ ApproveUpdateRequest(r)
     \/ ApproveSetProfile(r)
     \/ GetProfile(r)
     \/ UpdateProfile(r)
     \/ AddTransaction(r)
  /\ UNCHANGED <<now, qrVars, historyVars, userRole>>

\* The handlers the dashboards offer on Orders and Appointments.
RecordInvoke(limit) ==
  /\ \/ \E p \in ProductIds, c \in CoinInputs : handleAddProduct(limit, p, c)
     \/ \E u \in Users, p \in ProductIds : handleBuyNow(limit, u, p)
     \/ \E u \in Users, p \in ProductIds : handlePurchaseProduct(limit, u, p)
     \/ \E u \in Users, d \in Users, reason \in {"", "fever"} :
          handleRequestCheckup(limit, u, d, reason)
     \/ \E u \in Users : ClickAcceptOffer(limit, u)
     \/ \E u \in Users, qr \in QrInputs : handleTakeOrderAppointment(limit, u, qr)
     \/ \E u \in Users, qr \in QrInputs : handleConfirmTransferAndPayment(limit, u, qr)
  /\ UNCHANGED <<now, qrVars, historyVars, userRole>>

\* The handlers the dashboards offer on institutions and donations.
DonationInvoke(limit) ==
  /\ \/ \E i \in InstitutionIds : handleSubmitInstitutionRequest(limit, i)
     \/ \E i \in InstitutionIds : handleApproveInstitution(limit, i)
     \/ \E u \in Users, i \in InstitutionIds \cup {""}, a \in AmountInputs :
          handleDonateCoins(limit, u, i, a)
  /\ UNCHANGED <<now, qrVars, historyVars, userRole>>

\* Orders and Appointments, handlers invoked as the dashboards allow, up to
\* MaxInFlight of them awaiting the store at once.
Next == RecordInvoke(MaxInFlight) \/ (\E r \in InFlight : RecordStep(r)) \/ DismissMessage
Spec == Init /\ [][Next]_vars

\* The same with one request at a time: a handler is invoked only when no
\* other invocation awaits the store.
SeqNext == RecordInvoke(1) \/ (\E r \in InFlight : RecordStep(r)) \/ DismissMessage
SeqSpec == Init /\ [][SeqNext]_vars

\* handleAcceptOffer called with any offer id, not only through the Accept
\* button of a listed offer.
HandlerNext ==
  \/ Next
  \/ \E u \in Users, a \in OfferIds :
       handleAcceptOffer(MaxInFlight, u, a) /\ UNCHANGED <<now, qrVars, historyVars, userRole>>
HandlerSpec == Init /\ [][HandlerNext]_vars

\* Institutions and donations, concurrently and one request at a time.
DonationNext ==
  DonationInvoke(MaxInFlight) \/ (\E r \in InFlight : DonationStep(r)) \/ DismissMessage
DonationSpec == Init /\ [][DonationNext]_vars

SeqDonationNext ==
  DonationInvoke(1) \/ (\E r \in InFlight : DonationStep(r)) \/ DismissMessage
SeqDonationSpec == Init /\ [][SeqDonationNext]_vars

\* The handlers that act on Appointments.  No order is ever listed on the
\* salesperson dashboard or passes a check of a claim or a confirmation (the
\* lookup of line 1524 finds none), so the handlers that create products and
\* orders are left out.
AppointmentInvoke(limit) ==
  /\ \/ \E u \in Users, d \in Users, reason \in {"", "fever"} :
          handleRequestCheckup(limit, u, d, reason)
     \/ \E u \in Users : ClickAcceptOffer(limit, u)
     \/ \E u \in Users, qr \in QrInputs : handleTakeOrderAppointment(limit, u, qr)
     \/ \E u \in Users, qr \in QrInputs : handleConfirmTransferAndPayment(limit, u, qr)
  /\ UNCHANGED <<now, qrVars, historyVars, userRole>>

\* Appointments one request at a time, with the QR modals of the salesperson
\* and doctor dashboards.
QrNext ==
  \/ AppointmentInvoke(1)
  \/ \E r \in InFlight : RecordStep(r)
  \/ DismissMessage
  \/ \E u \in Users : ClickGenerateCustomerQr(u)
  \/ \E u \in Users : ClickGenerateSalespersonQr(u)
  \/ \E u \in Users : CloseQrModal(u)
QrSpec == Init /\ [][QrNext]_vars

\* Every handler that appends to the ledger, one request at a time, with the
\* coin history listeners.  A listener delivers a snapshot when it is
\* registered (the effect of lines 108-344 runs again whenever the role
\* changes) and whenever its query result changes.
LedgerNext ==
  \/ AppointmentInvoke(1)
  \/ DonationInvoke(1)
  \/ \E r \in InFlight : RecordStep(r)
  \/ \E r \in InFlight : DonationStep(r)
  \/ DismissMessage
  \/ \E u \in Users : InstitutionCoinHistorySnapshot(u)
  \/ \E u \in Users : SalespersonCoinHistorySnapshot(u)
LedgerSpec == Init /\ [][LedgerNext]_vars

\* Appointments one request at a time, with the clock and the coin history
\* listeners of the signed-in users.
HistoryNext ==
  \/ AppointmentInvoke(1)
  \/ \E r \in InFlight : RecordStep(r)
  \/ DismissMessage
  \/ Tick
  \/ \E u \in Users : InstitutionCoinHistorySnapshot(u)
  \/ \E u \in Users : SalespersonCoinHistorySnapshot(u)
HistorySpec == Init /\ [][HistoryNext]_vars

\* Donations overlapping, each institution approved by a single request
\* invoked while nothing else awaits the store.
CreditNext ==
  \/ /\ \/ \E i \in InstitutionIds : handleSubmitInstitutionRequest(MaxInFlight, i)
        \/ \E i \in InstitutionIds : handleApproveInstitution(1, i)
        \/ \E u \in Users, i \in InstitutionIds \cup {""}, a \in AmountInputs :
             handleDonateCoins(MaxInFlight, u, i, a)
     /\ UNCHANGED <<now, qrVars, historyVars, userRole>>
  \/ \E r \in InFlight : DonationStep(r)
  \/ DismissMessage
CreditSpec == Init /\ [][CreditNext]_vars

\* One request at a time on Appointments, with a store that may reject an
\* access of a confirmation after its status write.
FailureNext ==
  \/ AppointmentInvoke(1)
  \/ \E r \in InFlight : RecordStep(r)
  \/ DismissMessage
  \/ \E r \in InFlight :
       Quiet /\ ConfirmCatch(r) /\ UNCHANGED <<now, qrVars, historyVars, userRole>>
FailureSpec == Init /\ [][FailureNext]_vars

\* The items a salesperson's listeners can deliver, lines 292-300: each is
\* {id: doc.id, ...doc.data()}, and neither an order document (lines
\* 1015-1022) nor a patientOffer document has a field orderId.
LoadedItems == { [id |-> i, orderId |-> Undefined] : i \in OrderIds \cup OfferIds }

\* handleGenerateCustomerQr called with any item the listeners can deliver,
\* not only through the Generate QR button of a listed item.
MintNext ==
  \/ QrNext
  \/ \E u \in Salespersons, item \in LoadedItems : handleGenerateCustomerQr(u, item)
MintSpec == Init /\ [][MintNext]_vars

\* A database in which no user has a profile yet and the admin's role has
\* been assigned in the Firebase console: every other user signs in to the
\* RoleSelection screen (lines 128-135).
RoleInit ==
  /\ profiles = [i \in Users \cup InstitutionIds |-> NoProfile]
  /\ products = [p \in ProductIds |-> NoProduct]
  /\ orders = [o \in OrderIds |-> NoRecord]
  /\ allOrders = [o \in OrderIds |-> NoRecord]
  /\ patientOffers = [a \in OfferIds |-> NoRecord]
  /\ institutionRequests = [i \in InstitutionIds |-> "none"]
  /\ transactions = <<>>
  /\ requests = EmptyBag
  /\ message = NoMessage
  /\ now = 0
  /\ currentQrContent = [u \in Users |-> [kind |-> "empty", members |-> <<>>]]
  /\ showQrModal = [u \in Users |-> FALSE]
  /\ salespersonCoinHistory = [u \in Users |-> {}]
  /\ institutionCoinHistory = [u \in Users |-> {}]
  /\ userRole = [u \in Clients |-> IF u = "admin" THEN "admin" ELSE Undefined]

\* The handlers on Appointments, each offered by the dashboard of its role
\* (lines 1923-1936).
RoleInvoke(limit) ==
  /\ \/ \E u \in Users, d \in Users, reason \in {"", "fever"} :
          userRole[u] = "customer" /\ handleRequestCheckup(limit, u, d, reason)
     \/ \E u \in Users : userRole[u] = "doctor" /\ ClickAcceptOffer(limit, u)
     \/ \E u \in Users, qr \in QrInputs :
          userRole[u] = "salesperson" /\ handleTakeOrderAppointment(limit, u, qr)
     \/ \E u \in Users, qr \in QrInputs :
          userRole[u] = "customer" /\ handleConfirmTransferAndPayment(limit, u, qr)
  /\ UNCHANGED <<now, qrVars, historyVars, userRole>>

\* Role selection and role switching, with Appointments one request at a time.
RoleNext ==
  \/ \E u \in Clients : SelectRoleButton(1, u)
  \/ \E u \in Clients : RoleSwitchSelector(1, u)
  \/ RoleInvoke(1)
  \/ \E r \in InFlight : RecordStep(r)
  \/ DismissMessage
RoleSpec == RoleInit /\ [][RoleNext]_vars

\* ----------------------------------------------------------- properties
\* The invocation whose message this step shows.
Returned(op) == message' # message /\ message'.op = op
Succeeded(op) == Returned(op) /\ message'.result = "success"

\* The Transactions that reference a record.
TransactionsOf(type, id) ==
  { n \in 1..Len(transactions) :
      IF type = "order" THEN transactions[n].orderId = id
                        ELSE transactions[n].patientOfferId = id }

OrderEdges == { <<"pending_salesperson_pickup", "in_delivery">>,
                <<"in_delivery", "delivered">> }
AppointmentEdges == { <<"pending", "accepted">>,
                      <<"accepted", "assigned_to_salesperson">>,
                      <<"assigned_to_salesperson", "completed">> }
FollowsEdge(old, new, edges) ==
  old.exists => new.status = old.status \/ <<old.status, new.status>> \in edges

\* C1: in every step the status of an Order or Appointment stays the same or
\* changes along a documented edge (Order: pending_salesperson_pickup ->
\* in_delivery -> delivered; Appointment: pending -> accepted ->
\* assigned_to_salesperson -> completed).
C1_NoTimeTravel ==
  [][ /\ \A o \in OrderIds : /\ FollowsEdge(orders[o], orders'[o], OrderEdges)
                             /\ FollowsEdge(allOrders[o], allOrders'[o], OrderEdges)
      /\ \A a \in OfferIds :
           FollowsEdge(patientOffers[a], patientOffers'[a], AppointmentEdges) ]_vars

\* C2: of the claims racing for one unassigned record at most one reports
\* success: handleTakeOrderAppointment never reports success to a salesperson
\* for an Appointment that, when the report is made, another salesperson has
\* already been given.
C2_ExclusiveClaim ==
  [][ \A a \in OfferIds :
        Succeeded("take") /\ message'.patientOfferId = a /\ message'.orderId = Undefined
        => patientOffers[a].salespersonId \in {Undefined, message'.userId} ]_vars

\* C3: for every Order and Appointment, at most one Transaction carrying the
\* record's back-reference (orderId / patientOfferId) is ever appended.
C3_ExactlyOnceConfirmation ==
  /\ \A o \in OrderIds : Cardinality(TransactionsOf("order", o)) <= 1
  /\ \A a \in OfferIds : Cardinality(TransactionsOf("appointment", a)) <= 1

\* The record a confirmation's token names, wherever it is stored.
Addressed(m) ==
  IF m.orderId # Undefined
  THEN IF m.orderId \in OrderIds THEN orders[m.orderId] ELSE NoRecord
  ELSE IF m.patientOfferId \in OfferIds THEN patientOffers[m.patientOfferId]
  ELSE NoRecord

\* handleConfirmTransferAndPayment returns to a user who is not the owner of
\* the existing record the token names.
NonOwnerConfirmReturns ==
  /\ Returned("confirm")
  /\ Addressed(message').exists
  /\ Addressed(message').owner # message'.userId

\* C4: a confirmation requested by a user who is not the record's owner fails,
\* whatever token is presented, with Unauthorized for an Appointment and with
\* NotFound for an Order (an Order is looked up among the requester's own
\* orders), and changes no record, balance or ledger entry.
C4_NonOwnerConfirmFails ==
  [][ NonOwnerConfirmReturns
      => /\ message'.result = IF message'.orderId # Undefined THEN "NotFound"
                                                             ELSE "Unauthorized"
         /\ UNCHANGED storeVars ]_vars

\* C4 as stated: the confirmation of a non-owner always fails with Unauthorized.
C4_NonOwnerConfirmUnauthorized ==
  [][ NonOwnerConfirmReturns
      => message'.result = "Unauthorized" /\ UNCHANGED storeVars ]_vars

\* A non-owner was refused although the token names the salesperson the
\* appointment is assigned to.
C4_Witness ==
  /\ message.op = "confirm" /\ message.result = "Unauthorized"
  /\ \E a \in OfferIds :
       /\ message.patientOfferId = a
       /\ patientOffers[a].status = "assigned_to_salesperson"
       /\ patientOffers[a].salespersonId = message.salespersonId
       /\ patientOffers[a].owner # message.userId

\* C5: an Appointment moves from pending to accepted only through a request of
\* the user whose id is its doctorId, and handleAcceptOffer invoked by any
\* other user fails with Unauthorized and leaves the appointment unchanged.
C5_OnlyDoctorAccepts ==
  [][ \A a \in OfferIds :
        Returned("accept") /\ message'.patientOfferId = a /\ patientOffers[a].exists
        => IF message'.userId = patientOffers[a].doctorId
           THEN message'.result = "success"
           ELSE /\ message'.result = "Unauthorized"
                /\ patientOffers'[a] = patientOffers[a] ]_vars

\* C6: once the salespersonId of an Order or Appointment holds a value it
\* holds that value in every later state.
C6_SalespersonWriteOnce ==
  [][ /\ \A a \in OfferIds :
           patientOffers[a].salespersonId # Undefined
           => patientOffers'[a].salespersonId = patientOffers[a].salespersonId
      /\ \A o \in OrderIds :
           /\ orders[o].salespersonId # Undefined
              => orders'[o].salespersonId = orders[o].salespersonId
           /\ allOrders[o].salespersonId # Undefined
              => allOrders'[o].salespersonId = allOrders[o].salespersonId ]_vars

\* C7: with no other request in flight, a claim by salesperson S with a token
\* naming an order placed through handleBuyNow (pending_salesperson_pickup,
\* unassigned) succeeds and gives status in_delivery with salespersonId = S.
C7_OrderClaimSucceeds ==
  [][ \A o \in OrderIds :
        /\ Returned("take") /\ message'.orderId = o
        /\ orders[o].exists
        /\ orders[o].status = "pending_salesperson_pickup"
        /\ orders[o].salespersonId = Undefined
        => /\ message'.result = "success"
           /\ orders'[o].status = "in_delivery"
           /\ orders'[o].salespersonId = message'.userId ]_vars

\* A balance as a number: an absent coins field counts as 0.
Value(coins) == IF coins = NaN THEN 0 ELSE coins[1]

\* The sum of the amounts of the first n Transactions whose targetId is id.
RECURSIVE Credited(_, _)
Credited(n, id) ==
  IF n = 0 THEN 0
  ELSE Credited(n - 1, id)
       + (IF transactions[n].targetId = id THEN transactions[n].amount ELSE 0)

\* The sum of the amounts the requests of S have credited and not yet recorded.
RECURSIVE Owed(_)
Owed(S) ==
  IF S = {} THEN 0
  ELSE LET r == CHOOSE x \in S : TRUE
       IN  requests[r] * r.amount + Owed(S \ {r})

\* Every balance is the sum of the Transactions that credit it, counting the
\* Transaction a request is about to append.
BalanceMatchesLedger ==
  \A id \in Users \cup InstitutionIds :
    Value(profiles[id].coins) =
      Credited(Len(transactions), id)
      + Owed({ r \in InFlight : r.pc = "addDoc" /\ CreditTarget(r) = id })

\* The message is about Appointment a.
About(m, a) == m.orderId = Undefined /\ m.patientOfferId = a

PositiveInteger(text) ==
  /\ text # <<>>
  /\ \A n \in 1..Len(text) : text[n] \in Digits
  /\ DecimalValue(text) > 0

\* C9: with one request at a time, a donation by customer C of a positive
\* integer amount a to an approved institution I with balance b succeeds,
\* leaves I's balance at b + a (a when the balance was 0 or absent) and appends
\* exactly one donation Transaction with sourceId = C, targetId = I, amount = a.
C9_Donation ==
  /\ []BalanceMatchesLedger
  /\ [][ /\ Returned("donate") /\ PositiveInteger(message'.amountToDonate)
            /\ message'.target \in approvedInstitutions
            => /\ message'.result = "success"
               /\ transactions' =
                    Append(transactions,
                           Transaction("donation", DecimalValue(message'.amountToDonate),
                                       message'.userId, message'.target,
                                       Undefined, Undefined))
         /\ transactions' # transactions => Succeeded("donate")
         /\ \A i \in InstitutionIds :
              profiles[i].exists /\ profiles'[i] # profiles[i]
              => \E r \in InFlight :
                   /\ r.op = "donate" /\ r.target = i
                   /\ PositiveInteger(r.amountToDonate)
                      => Value(profiles'[i].coins) =
                           Value(profiles[i].coins) + DecimalValue(r.amountToDonate)
     ]_vars

\* A second donation returned: the institution holds both amounts.
C9_Witness ==
  /\ message.op = "donate" /\ message.result = "success"
  /\ PositiveInteger(message.amountToDonate)
  /\ Len(transactions) = 2
  /\ profiles[message.target].coins =
       Num(transactions[1].amount + DecimalValue(message.amountToDonate))

\* C10: whenever a confirmation returns successfully, exactly one Transaction
\* for its record has been appended (coin_transfer of product.coinsAssigned,
\* or checkup_payment of checkupCoins) with sourceId = the confirming owner and
\* targetId = the salesperson, and every balance holds what the ledger says
\* was credited to it.
C10_ConfirmationPays ==
  /\ []BalanceMatchesLedger
  /\ [][ Succeeded("confirm")
         => LET type == IF message'.orderId # Undefined THEN "order" ELSE "appointment"
                id   == IF type = "order" THEN message'.orderId
                                          ELSE message'.patientOfferId
                paid == { n \in 1..Len(transactions') :
                            IF type = "order" THEN transactions'[n].orderId = id
                                              ELSE transactions'[n].patientOfferId = id }
            IN  /\ Cardinality(paid) = 1
                /\ \A n \in paid :
                     /\ transactions'[n].sourceId = message'.userId
                     /\ transactions'[n].targetId = message'.salespersonId
                     /\ IF type = "order"
                        THEN /\ transactions'[n].type = "coin_transfer"
                             /\ Num(transactions'[n].amount) =
                                  products[orders[id].productId].coinsAssigned
                        ELSE /\ transactions'[n].type = "checkup_payment"
                             /\ transactions'[n].amount = checkupCoins
     ]_vars

\* The request r is invoked in this step and goes on to await the store.
Began(r) == requests' = requests (+) SetToBag({r})

\* A request is invoked and refused in this same step.
Refused(op) == Returned(op) /\ requests' = requests

\* A claim of Appointment a has succeeded: only a claim sets salespersonId.
ClaimSucceeded(a) == patientOffers[a].salespersonId # Undefined

\* A confirmation of Appointment a with a token naming salesperson s has
\* succeeded: it appended its Transaction as it returned.
ConfirmSucceeded(a, s) ==
  \E n \in 1..Len(transactions) : /\ transactions[n].patientOfferId = a
                                  /\ transactions[n].targetId = s

\* C11: after a claim (a confirmation) presenting a token has succeeded and
\* returned, every request invoked later with the same token for the same
\* edge (a claim by any salesperson, a confirmation by the record's owner) is
\* refused with InvalidState and changes no record, balance or ledger entry.
C11_ReplayProtection ==
  [][ \A a \in OfferIds :
        /\ ClaimSucceeded(a)
           => /\ \A r \in BagToSet(requests') :
                   ~(Began(r) /\ r.op = "take" /\ About(r, a))
              /\ Refused("take") /\ About(message', a)
                 => message'.result = "InvalidState" /\ UNCHANGED storeVars
        /\ \A r \in BagToSet(requests') :
             ~(/\ Began(r) /\ r.op = "confirm" /\ About(r, a)
               /\ r.userId = patientOffers[a].owner
               /\ ConfirmSucceeded(a, r.salespersonId))
        /\ /\ Refused("confirm") /\ About(message', a)
           /\ message'.userId = patientOffers[a].owner
           /\ ConfirmSucceeded(a, message'.salespersonId)
           => message'.result = "InvalidState" /\ UNCHANGED storeVars ]_vars

\* A Generate QR button of user u's dashboard acts in this step: the modal
\* opens or its content changes, and no request returns.
QrGenerated(u) ==
  /\ message' = message /\ requests' = requests
  /\ \/ currentQrContent'[u] # currentQrContent[u]
     \/ showQrModal'[u] /\ ~showQrModal[u]

\* The token for the customer of record id held by salesperson u, and the
\* token for the salesperson of appointment id accepted by doctor u.
CustomerToken(id, u) ==
  [kind |-> "object",
   members |-> << <<"patientOfferId", id>>, <<"salespersonId", u>> >>]
SalespersonToken(id, u) ==
  [kind |-> "object",
   members |-> << <<"patientOfferId", id>>, <<"doctorId", u>> >>]

\* C12: handleGenerateCustomerQr and handleGenerateSalespersonQr leave every
\* Order, Appointment, balance and ledger entry unchanged, and the content
\* they show is each time the token of the record and the actor: the
\* record's id with the salesperson's id, or with the doctor's id.
C12_TokenRegeneration ==
  [][ \A u \in Users :
        QrGenerated(u)
        => /\ UNCHANGED storeVars
           /\ \E a \in OfferIds :
                \/ /\ patientOffers[a].salespersonId = u
                   /\ currentQrContent'[u] = CustomerToken(a, u)
                \/ /\ patientOffers[a].doctorId = u
                   /\ currentQrContent'[u] = SalespersonToken(a, u) ]_vars

\* A salesperson's dashboard shows the customer token of an Appointment
\* assigned to that salesperson.
C12_Witness ==
  \E u \in Users, a \in OfferIds :
    /\ showQrModal[u]
    /\ currentQrContent[u] = CustomerToken(a, u)
    /\ patientOffers[a].salespersonId = u
    /\ patientOffers[a].status = "assigned_to_salesperson"

\* C13: a claim request on an Appointment that returns after another
\* salesperson's claim has assigned the Appointment fails with AlreadyAssigned and writes nothing
\* to the record, so the first claimant stays the record's salespersonId.
C13_ClaimRaceOutcome ==
  [][ \A a \in OfferIds :
        /\ Returned("take") /\ About(message', a)
        /\ patientOffers[a].status = "assigned_to_salesperson"
        /\ ClaimSucceeded(a)
        /\ message'.userId # patientOffers[a].salespersonId
        => /\ message'.result = "AlreadyAssigned"
           /\ patientOffers'[a] = patientOffers[a] ]_vars

\* C14: the ledger is append-only.  In every step every Transaction present
\* before the step is present after it with all fields unchanged; nothing is
\* mutated or removed by a confirmation, a donation, an approval or a history
\* read.
C14_LedgerAppendOnly ==
  [][ /\ Len(transactions') >= Len(transactions)
      /\ \A n \in 1..Len(transactions) : transactions'[n] = transactions[n] ]_vars

\* The ledger holds a checkup_payment and, after it, a donation, and a coin
\* history listener has read the ledger.
C14_Witness ==
  /\ Len(transactions) = MaxLedger
  /\ transactions[1].type = "checkup_payment"
  /\ transactions[Len(transactions)].type = "donation"
  /\ \E u \in Users : salespersonCoinHistory[u] # {}

\* The stored Transactions with targetId = a and date >= now - 30 days.
TransactionsInWindow(a) ==
  { n \in 1..Len(transactions) : /\ transactions[n].targetId = a
                                 /\ transactions[n].date >= now - 30 }

\* C15: at every clock value, the history view that a coin history listener
\* computes for account a is exactly the set of stored Transactions with
\* targetId = a and date >= now - 30 days, in the institution role and in the
\* salesperson role alike, whatever the types of the Transactions.
C15_HistoryReadExact ==
  \A a \in Users :
    /\ recentHistory(a, {"donation"}) = TransactionsInWindow(a)
    /\ a \in Salespersons
       => recentHistory(a, {"coin_transfer", "checkup_payment"}) = TransactionsInWindow(a)

\* C16: in every state with no request in flight, the coins balance of every
\* account equals the sum of the amounts of the Transactions whose targetId
\* is that account.
C16_LedgerBalanceReconciliation ==
  requests = EmptyBag
  => \A id \in Users \cup InstitutionIds :
       Value(profiles[id].coins) = Credited(Len(transactions), id)

\* C17: every Transaction in the ledger, and every amount a request has
\* credited and is about to record, is an integer strictly greater than 0.
C17_PositiveIntegerAmounts ==
  /\ \A n \in 1..Len(transactions) : transactions[n].amount \in Nat \ {0}
  /\ \A r \in InFlight :
       r.pc \in {"getProfile", "updateProfile", "addDoc"} => r.amount \in Nat \ {0}

\* The ledger holds a checkup_payment and a donation whose amount was typed
\* with characters after its digits.
C17_Witness ==
  /\ \E n \in 1..Len(transactions) : transactions[n].type = "checkup_payment"
  /\ \E n \in 1..Len(transactions) : transactions[n].type = "donation"
  /\ message.op = "donate" /\ message.result = "success"
  /\ ~PositiveInteger(message.amountToDonate)

\* C18: once an Order's status is delivered or purchased_by_doctor, no step of
\* any request, in any interleaving, changes its status or its salespersonId.
C18_OrderTerminalStatuses ==
  [][ \A o \in OrderIds :
        /\ orders[o].exists /\ orders[o].status \in {"delivered", "purchased_by_doctor"}
           => /\ orders'[o].status = orders[o].status
              /\ orders'[o].salespersonId = orders[o].salespersonId
        /\ allOrders[o].exists /\ allOrders[o].status \in {"delivered", "purchased_by_doctor"}
           => /\ allOrders'[o].status = allOrders[o].status
              /\ allOrders'[o].salespersonId = allOrders[o].salespersonId ]_vars

\* A claim or a confirmation that presents the id of an Order purchased by a
\* doctor has been answered while other requests were awaiting the store.
C18_Witness ==
  \E o \in OrderIds :
    /\ orders[o].status = "purchased_by_doctor"
    /\ message.op \in {"take", "confirm"} /\ message.orderId = o
    /\ InFlight # {}

\* C19: once an Appointment's status is completed, no step of any request, in
\* any interleaving, changes its status or its salespersonId.
C19_AppointmentTerminalStatus ==
  [][ \A a \in OfferIds :
        patientOffers[a].exists /\ patientOffers[a].status = "completed"
        => /\ patientOffers'[a].status = "completed"
           /\ patientOffers'[a].salespersonId = patientOffers[a].salespersonId ]_vars

\* The record a confirmation request names, as the store holds it.
ConfirmedRecord(r) ==
  IF r.orderId # Undefined
  THEN IF r.orderId \in OrderIds THEN orders[r.orderId] ELSE NoRecord
  ELSE IF r.patientOfferId \in OfferIds THEN patientOffers[r.patientOfferId]
  ELSE NoRecord

\* C20: a confirmation by the record's owner whose token names another
\* salespersonId than the record holds is rejected and changes no record,
\* balance or ledger entry; a confirmation goes on to its writes only with a
\* token whose salespersonId is the one it read from the record, for Orders
\* and Appointments alike.
C20_TokenActorMatch ==
  [][ /\ /\ Refused("confirm")
         /\ ConfirmedRecord(message').exists
         /\ message'.userId = ConfirmedRecord(message').owner
         /\ message'.salespersonId # ConfirmedRecord(message').salespersonId
         => /\ message'.result \in {"InvalidState", "SalespersonMismatch"}
            /\ UNCHANGED storeVars
      /\ \A r \in BagToSet(requests') :
           Began(r) /\ r.op = "confirm"
           => /\ ConfirmedRecord(r).exists
              /\ r.salespersonId = ConfirmedRecord(r).salespersonId ]_vars

\* The patient of an assigned Appointment has presented a token that names
\* another salesperson and has been refused for that.
C20_Witness ==
  \E a \in OfferIds :
    /\ message.op = "confirm" /\ About(message, a)
    /\ message.userId = patientOffers[a].owner
    /\ patientOffers[a].status = "assigned_to_salesperson"
    /\ message.salespersonId # patientOffers[a].salespersonId
    /\ message.result = "SalespersonMismatch"

\* C21: a claim that presents a token naming an existing Appointment and a
\* doctorId other than the Appointment's doctorId, or no doctorId, is rejected
\* in the step that reads the record and changes no record, balance or ledger
\* entry.
C21_ClaimTokenVerified ==
  [][ \A u \in Users, qr \in QrInputs, a \in OfferIds :
        /\ handleTakeOrderAppointment(MaxInFlight, u, qr)
        /\ qrData(qr).orderId = Undefined /\ qrData(qr).patientOfferId = a
        /\ patientOffers[a].exists
        /\ Field(qr.members, "doctorId") # patientOffers[a].doctorId
        => Refused("take") /\ UNCHANGED storeVars ]_vars

\* The text typed as an amount is empty, has no leading number, or is the
\* text of zero or of a negative number.
BadAmountText(text) ==
  \/ text = <<>>
  \/ Head(text) \notin Digits \cup {"-"}
  \/ Head(text) = "-"
  \/ \A n \in 1..Len(text) : text[n] = "0"

\* The donation request names no institution or a bad amount.
BadDonation(m) == m.target = "" \/ BadAmountText(m.amountToDonate)

MustRejectTake(m) ==
  LET rec == ConfirmedRecord(m) IN
  \/ m.orderId = Undefined /\ m.patientOfferId = Undefined
  \/ ~rec.exists
  \/ rec.status # (IF m.orderId # Undefined THEN "pending_salesperson_pickup"
                                             ELSE "accepted")
  \/ rec.salespersonId # Undefined

\* The confirmation request m must be rejected: its token names no record, or
\* the record is absent, not the requester's, not in the source status of the
\* confirmation edge, or assigned to another salesperson than the token names.
MustRejectConfirm(m) ==
  LET rec == ConfirmedRecord(m) IN
  \/ m.orderId = Undefined /\ m.patientOfferId = Undefined
  \/ ~rec.exists
  \/ rec.owner # m.userId
  \/ rec.status # (IF m.orderId # Undefined THEN "in_delivery"
                                             ELSE "assigned_to_salesperson")
  \/ rec.salespersonId # m.salespersonId

\* C23: a claim or confirmation request whose token does not parse or names
\* no record, or whose record is absent, not in the source status of the edge
\* or fails the owner or salesperson check, is rejected before any write: it
\* never goes on to the store, and the step that rejects it leaves every
\* record, balance and ledger entry as it was.
C23_RejectedRequestsWriteNothing ==
  [][ /\ \A r \in BagToSet(requests') :
           /\ Began(r) /\ r.op = "take" => ~MustRejectTake(r)
           /\ Began(r) /\ r.op = "confirm" => ~MustRejectConfirm(r)
      /\ \A op \in {"take", "confirm"} :
           Refused(op) => /\ message'.result # "success"
                          /\ UNCHANGED storeVars
      /\ Returned("take") /\ message'.result # "success" => UNCHANGED storeVars
    ]_vars

\* A claim of a completed Appointment, whose payment is in the ledger, has
\* been rejected.
C23_Witness ==
  \E a \in OfferIds :
    /\ message.op = "take" /\ About(message, a)
    /\ message.result = "InvalidState"
    /\ patientOffers[a].status = "completed"
    /\ Len(transactions) > 0

\* Order o has just been created by handlePurchaseProduct.
Purchased(o) ==
  /\ ~orders[o].exists /\ orders'[o].exists
  /\ \E u \in Users, p \in ProductIds : handlePurchaseProduct(MaxInFlight, u, p)

\* C24: an order created through handlePurchaseProduct has status
\* purchased_by_doctor and no salespersonId; an order in that status is never
\* written again, no Transaction references it and no confirmation is
\* crediting a balance for it.
C24_DoctorPurchaseBypassesDelivery ==
  /\ [][ \A o \in OrderIds :
           /\ Purchased(o) => /\ orders'[o].status = "purchased_by_doctor"
                              /\ orders'[o].salespersonId = Undefined
           /\ orders[o].status = "purchased_by_doctor" => orders'[o] = orders[o] ]_vars
  /\ [](\A o \in OrderIds :
          orders[o].status = "purchased_by_doctor"
          => /\ orders[o].salespersonId = Undefined
             /\ TransactionsOf("order", o) = {}
             /\ \A r \in InFlight : ~(r.op = "confirm" /\ r.orderId = o))

\* A claim or a confirmation naming an order purchased by a doctor has
\* returned while the ledger holds the payment of an Appointment.
C24_Witness ==
  \E o \in OrderIds :
    /\ orders[o].status = "purchased_by_doctor" /\ orders[o].owner \in Doctors
    /\ message.op \in {"take", "confirm"} /\ message.orderId = o
    /\ message.result # "success"
    /\ Len(transactions) > 0

\* C25: with one request at a time, every step of a donation by donor C to
\* institution I changes at most the coins of I's profile and the ledger: the
\* donor's profile and the coins it holds, every other profile and every
\* product, Order, Appointment and onboarding request stay as they were, and
\* the successful return appends one Transaction.
C25_DonationsAreUnbackedCredits ==
  [][ \A r \in InFlight :
        r.op = "donate"
        => /\ \A id \in DOMAIN profiles :
                /\ id # r.target => profiles'[id] = profiles[id]
                /\ profiles'[id].exists = profiles[id].exists
           /\ UNCHANGED <<products, orders, allOrders, patientOffers,
                          institutionRequests>>
           /\ IF Succeeded("donate")
              THEN Len(transactions') = Len(transactions) + 1
              ELSE transactions' = transactions ]_vars

\* A donor who holds the coins of a checkup payment has donated: the donor
\* still holds them and the institution holds the donation.
C25_Witness ==
  /\ message.op = "donate" /\ message.result = "success"
  /\ message.userId # message.target
  /\ Value(profiles[message.userId].coins) = checkupCoins
  /\ Value(profiles[message.target].coins) = transactions[Len(transactions)].amount
  /\ \E a \in OfferIds : patientOffers[a].status = "completed"

\* The onboarding request of account id is in status approved.
Approved(id) == id \in InstitutionIds /\ institutionRequests[id] = "approved"

\* C26: a donation request goes on to the store only when the institution it
\* names is approved at that time; one that names no approved institution is
\* rejected and changes no balance and no ledger entry; every donation in
\* flight and every donation Transaction names an approved institution, and a
\* step of a donation changes no other balance than that institution's.
C26_DonationTargetApproved ==
  /\ [][ /\ \A r \in BagToSet(requests') :
              Began(r) /\ r.op = "donate" => Approved(r.target)
         /\ Refused("donate") /\ ~Approved(message'.target)
            => UNCHANGED <<profiles, transactions>>
         /\ \A r \in InFlight :
              r.op = "donate"
              => \A id \in DOMAIN profiles :
                   profiles'[id] # profiles[id] => id = r.target /\ Approved(id)
       ]_vars
  /\ [](/\ \A r \in InFlight : r.op = "donate" => Approved(r.target)
        /\ \A n \in 1..Len(transactions) :
             transactions[n].type = "donation" => Approved(transactions[n].targetId))

\* An approved institution holds a donation, and a donation that named no
\* institution has been rejected.
C26_Witness ==
  /\ \E n \in 1..Len(transactions) :
       /\ transactions[n].type = "donation"
       /\ Value(profiles[transactions[n].targetId].coins) >= transactions[n].amount
  /\ message.op = "donate" /\ message.target = ""
  /\ message.result = "ValidationError"

\* Request r takes its next step and becomes r2.
Stepped(r, r2) == requests' = (requests (-) SetToBag({r})) (+) SetToBag({r2})

\* C27: the balance write of a crediting request stores the balance the
\* request read earlier plus its amount, whatever the account holds when the
\* write lands; so of two requests that read the same balance and both
\* succeed, the later write leaves a balance that reflects one amount only.
C27_BalanceWriteUsesBalanceRead ==
  [][ \A r \in InFlight :
        r.pc = "updateProfile" /\ Stepped(r, [r EXCEPT !.pc = "addDoc"])
        => profiles' = [profiles EXCEPT
                          ![CreditTarget(r)].coins = Num(Value(r.coins) + r.amount)]
    ]_vars

\* Two donations to one institution have both returned successfully and both
\* Transactions are in the ledger, and the institution holds the amount of
\* one of them only.
C27_Witness ==
  /\ requests = EmptyBag
  /\ message.op = "donate" /\ message.result = "success"
  /\ Len(transactions) = 2
  /\ transactions[1].targetId = transactions[2].targetId
  /\ transactions[1].type = "donation" /\ transactions[2].type = "donation"
  /\ Value(profiles[transactions[1].targetId].coins)
       \in {transactions[1].amount, transactions[2].amount}

\* C28: a record that is delivered or completed has the Transaction of its
\* confirmation in the ledger and the amount on the salesperson's balance:
\* the credit and the ledger append do not come after the status write.
C28_SideEffectsBeforeStatus ==
  /\ \A a \in OfferIds :
       patientOffers[a].exists /\ patientOffers[a].status = "completed"
       => \E n \in TransactionsOf("appointment", a) :
            /\ transactions[n].type = "checkup_payment"
            /\ transactions[n].targetId = patientOffers[a].salespersonId
            /\ Value(ReadCoins(transactions[n].targetId)) >= transactions[n].amount
  /\ \A o \in OrderIds :
       orders[o].exists /\ orders[o].status = "delivered"
       => \A r \in InFlight : r.op = "confirm" /\ r.type = "order" /\ r.docId = o
                               => r.pc \notin {"getProfile", "updateProfile", "addDoc"}

\* C29: when a confirmation ends without success after its status write (a
\* later store access failed), it reports an error, the record is in
\* delivered/completed, the failing step changes no record, balance or ledger
\* entry (nothing written earlier is undone) and no Transaction references
\* the record.
C29_NoPartialRollback ==
  [][ \A r \in InFlight :
        /\ r.op = "confirm" /\ r.pc \in {"getProfile", "updateProfile", "addDoc"}
        /\ requests' = requests (-) SetToBag({r})
        /\ message' # message /\ message'.result # "success"
        => /\ message' = Report(Done(r, "Error"))
           /\ ConfirmedRecord(r).status = ConfirmedStatus(r.type)
           /\ UNCHANGED storeVars
           /\ TransactionsOf(r.type, r.docId) = {} ]_vars

\* The ledger append of a confirmation has failed: the error is reported, the
\* Appointment is completed, the salesperson holds the credit and the ledger
\* is empty.
C29_Witness ==
  /\ message.op = "confirm" /\ message.result = "Error"
  /\ message.patientOfferId \in OfferIds
  /\ patientOffers[message.patientOfferId].status = "completed"
  /\ Value(ReadCoins(patientOffers[message.patientOfferId].salespersonId)) = checkupCoins
  /\ transactions = <<>>

\* C30: the coins of a profile that exists change only in the balance write
\* of a confirmation or of a donation, for the account that request credits;
\* every other step (creation, accept, claim, approval, also an approval
\* repeated for an approved request) leaves the coins of existing profiles and
\* the ledger as they are.
C30_OnlyCreditsMoveCoins ==
  [][ /\ \A id \in DOMAIN profiles :
           ProfileExists(id) /\ profiles'[id].coins # profiles[id].coins
           => \E r \in InFlight :
                /\ r.op \in {"confirm", "donate"} /\ r.pc = "updateProfile"
                /\ CreditTarget(r) = id
                /\ Stepped(r, [r EXCEPT !.pc = "addDoc"])
      /\ transactions' # transactions
           => \E r \in InFlight :
                /\ r.op \in {"confirm", "donate"} /\ r.pc = "addDoc"
                /\ requests' = requests (-) SetToBag({r}) ]_vars

\* C31: a confirmation succeeds only after the record's salesperson has
\* minted a token: the salesperson of a completed Appointment (a delivered
\* Order) has generated QR content at some earlier time, so the content of
\* that dashboard is no longer the empty one it starts with.
C31_UnforgeableHandoff ==
  /\ \A a \in OfferIds :
       patientOffers[a].exists /\ patientOffers[a].status = "completed"
       => /\ patientOffers[a].salespersonId \in Users
          /\ currentQrContent[patientOffers[a].salespersonId].kind = "object"
  /\ \A o \in OrderIds :
       orders[o].exists /\ orders[o].status = "delivered"
       => /\ orders[o].salespersonId \in Users
          /\ currentQrContent[orders[o].salespersonId].kind = "object"

\* C32: an Order has a salespersonId exactly when its status is in_delivery
\* or delivered, and an Appointment has one exactly when its status is
\* assigned_to_salesperson or completed.
C32_StatusAssignmentConsistency ==
  /\ \A o \in OrderIds :
       orders[o].exists
       => (orders[o].salespersonId # Undefined
             <=> orders[o].status \in {"in_delivery", "delivered"})
  /\ \A a \in OfferIds :
       patientOffers[a].exists
       => (patientOffers[a].salespersonId # Undefined
             <=> patientOffers[a].status \in {"assigned_to_salesperson", "completed"})

\* C33: every coin_transfer or checkup_payment Transaction has as targetId the
\* salespersonId now stored on the Order/Appointment it references and as
\* sourceId that record's owner.
C33_RewardGoesToAssignedSalesperson ==
  \A n \in 1..Len(transactions) :
    LET t == transactions[n] IN
    /\ t.type = "coin_transfer"
         => /\ t.orderId \in OrderIds /\ orders[t.orderId].exists
            /\ t.targetId = orders[t.orderId].salespersonId
            /\ t.sourceId = orders[t.orderId].owner
    /\ t.type = "checkup_payment"
         => /\ t.patientOfferId \in OfferIds /\ patientOffers[t.patientOfferId].exists
            /\ t.targetId = patientOffers[t.patientOfferId].salespersonId
            /\ t.sourceId = patientOffers[t.patientOfferId].owner

\* C34: when the ledger holds a coin_transfer Transaction with orderId r,
\* Order r is delivered; when it holds a checkup_payment Transaction with
\* patientOfferId r, Appointment r is completed.
C34_LedgerEntryImpliesFinishedRecord ==
  \A n \in 1..Len(transactions) :
    LET t == transactions[n] IN
    /\ t.type = "coin_transfer"
         => /\ t.orderId \in OrderIds
            /\ orders[t.orderId].status = "delivered"
    /\ t.type = "checkup_payment"
         => /\ t.patientOfferId \in OfferIds
            /\ patientOffers[t.patientOfferId].status = "completed"

\* C35: a claim invoked by S with any token goes on as a request of S, and
\* when a claim of S succeeds, the record it wrote has salespersonId S (the
\* requester, whatever salespersonId or doctorId the token carried) and the
\* claimed status of its type, in_delivery or assigned_to_salesperson.
C35_ClaimAssignsRequester ==
  [][ /\ (/\ requests = EmptyBag
          /\ Returned("take") \/ (\E q \in BagToSet(requests') : q.op = "take"))
           => \A u \in Salespersons, qr \in QrInputs :
                handleTakeOrderAppointment(MaxInFlight, u, qr)
                => /\ \A r \in BagToSet(requests') : r.op = "take" /\ r.userId = u
                   /\ message' # message => message'.userId = u
      /\ \A r \in InFlight :
           /\ r.op = "take" /\ requests' = requests (-) SetToBag({r})
           /\ Succeeded("take")
           => /\ message'.userId = r.userId
              /\ IF r.type = "order"
                 THEN /\ allOrders'[r.docId].salespersonId = r.userId
                      /\ allOrders'[r.docId].status = "in_delivery"
                 ELSE /\ patientOffers'[r.docId].salespersonId = r.userId
                      /\ patientOffers'[r.docId].status = "assigned_to_salesperson"
    ]_vars

\* A claim by a salesperson who is not the Appointment's doctor has succeeded:
\* the Appointment is assigned to that salesperson.
C35_Witness ==
  /\ message.op = "take" /\ message.result = "success"
  /\ \E a \in OfferIds :
       /\ About(message, a)
       /\ patientOffers[a].salespersonId = message.userId
       /\ patientOffers[a].doctorId # message.userId
       /\ patientOffers[a].status = "assigned_to_salesperson"

C37_NoStuckAppointment ==
  \A a \in OfferIds :
    LET data == patientOffers[a] IN
    /\ data.exists /\ data.status = "accepted"
         => TakeValidate("appointment", data) = "ok"
    /\ data.exists /\ data.status = "assigned_to_salesperson"
         => /\ data.owner \in Customers
            /\ ConfirmValidate("appointment", data, data.owner, data.salespersonId) = "ok"

\* The roles a user may give to itself.
SelfAssignable == {"customer", "institution", "salesperson", "doctor"}

\* C38: no role selection or role switch makes a user admin: the role of a
\* profile and of its client is unset or one of customer, institution,
\* salesperson and doctor for every user but the admin, a step that changes a
\* role writes one of those four, and the role of the admin never changes
\* (the admin is offered no role switch).
C38_AdminNotSelfAssigned ==
  /\ [](\A u \in Users : /\ userRole[u] \in SelfAssignable \cup {Undefined}
                         /\ profiles[u].role \in SelfAssignable \cup {Undefined})
  /\ [][ /\ \A u \in Clients :
              userRole'[u] # userRole[u]
              => userRole[u] # "admin" /\ userRole'[u] \in SelfAssignable
         /\ \A u \in Users :
              profiles'[u].role # profiles[u].role
              => /\ profiles'[u].role \in SelfAssignable
                 /\ message'.op \in {"selectRole", "roleSwitch"}
                 /\ message'.userId = u ]_vars

\* A user who had selected a role has switched to another one through the
\* header selector, and the admin is still the admin.
C38_Witness ==
  /\ message.op = "roleSwitch" /\ message.result = "success"
  /\ message.userId \in Users
  /\ userRole[message.userId] = message.target
  /\ profiles[message.userId].role = message.target
  /\ message.target = "institution"
  /\ userRole["admin"] = "admin"

\* A role selection or role switch of user u returns in this step.
RoleChanged(u) ==
  /\ message' # message
  /\ message'.op \in {"selectRole", "roleSwitch"} /\ message'.userId = u

\* C39: a role selection or role switch of a user writes the role (and, on
\* selection, createdAt) of that user's own profile and nothing else: the
\* profile's coins, every other profile, every Order and Appointment and the
\* ledger are unchanged, so the coins a user holds survive role switches.
C39_RoleChangePreservesAccount ==
  [][ \A u \in Users :
        RoleChanged(u)
        => /\ profiles'[u].exists
           /\ profiles'[u].role = message'.target
           /\ profiles'[u].coins = profiles[u].coins
           /\ message'.op = "roleSwitch" => profiles'[u].createdAt = profiles[u].createdAt
           /\ \A id \in DOMAIN profiles : id # u => profiles'[id] = profiles[id]
           /\ UNCHANGED <<products, orders, allOrders, patientOffers,
                          institutionRequests, transactions>> ]_vars

\* A user who earned the checkup reward as a salesperson has switched to
\* another role and still holds the reward.
C39_Witness ==
  /\ message.op = "roleSwitch" /\ message.result = "success"
  /\ message.userId \in Users
  /\ message.target # "salesperson"
  /\ profiles[message.userId].role = message.target
  /\ profiles[message.userId].coins = Num(checkupCoins)
  /\ \E n \in 1..Len(transactions) : transactions[n].targetId = message.userId

=============================================================================
